---- MODULE Spec2Model ----
(***************************************************************************)
(* A model of the diskimage package: DiskImage (diskimage.py), FileSystem  *)
(* (filesystem.py), Item (item.py) and the command line (__main__.py).     *)
(*                                                                         *)
(* Strings are sequences of one-character strings, so that lower(),        *)
(* upper(), endswith(), os.path.join and re.match are computed and not     *)
(* assumed.  Python lists that are shared by reference (the `parents`      *)
(* lists) live in a heap and are named by their address.  A generator is   *)
(* a frame that is advanced one code segment at a time.                     *)
(***************************************************************************)
EXTENDS Integers, Sequences, FiniteSets, TLC

(***************************************************************************)
(* Characters and strings                                                  *)
(***************************************************************************)
LowerLetters == <<"a", "b", "c", "d", "e", "f", "g", "h", "i", "j", "k", "l", "m",
                  "n", "o", "p", "q", "r", "s", "t", "u", "v", "w", "x", "y", "z">>
UpperLetters == <<"A", "B", "C", "D", "E", "F", "G", "H", "I", "J", "K", "L", "M",
                  "N", "O", "P", "Q", "R", "S", "T", "U", "V", "W", "X", "Y", "Z">>

\* str.upper() on one character
CharUpper(c) ==
    IF \E i \in 1..Len(LowerLetters) : LowerLetters[i] = c
    THEN UpperLetters[CHOOSE i \in 1..Len(LowerLetters) : LowerLetters[i] = c]
    ELSE c

\* str.lower() on one character
CharLower(c) ==
    IF \E i \in 1..Len(UpperLetters) : UpperLetters[i] = c
    THEN LowerLetters[CHOOSE i \in 1..Len(UpperLetters) : UpperLetters[i] = c]
    ELSE c

StrUpper(s) == [i \in 1..Len(s) |-> CharUpper(s[i])]
StrLower(s) == [i \in 1..Len(s) |-> CharLower(s[i])]

\* s.endswith(suffix)
EndsWith(s, suffix) ==
    /\ Len(suffix) <= Len(s)
    /\ SubSeq(s, Len(s) - Len(suffix) + 1, Len(s)) = suffix

\* s.endswith(tuple of suffixes)
EndsWithAny(s, suffixes) == \E k \in 1..Len(suffixes) : EndsWith(s, suffixes[k])

\* os.path.join(a, b) on POSIX
PathJoin(a, b) ==
    IF Len(b) > 0 /\ b[1] = "/" THEN b
    ELSE IF Len(a) = 0 \/ a[Len(a)] = "/" THEN a \o b
    ELSE a \o <<"/">> \o b

\* os.path.basename(p)
RECURSIVE BaseName(_)
BaseName(p) ==
    IF \E i \in 1..Len(p) : p[i] = "/"
    THEN BaseName(SubSeq(p, (CHOOSE i \in 1..Len(p) : p[i] = "/") + 1, Len(p)))
    ELSE p

(***************************************************************************)
(* Image types and extensions (diskimage.py, module level)                 *)
(***************************************************************************)
RAWEXTENSIONS == << <<".", "d", "d">>, <<".", "0", "0", "0">>, <<".", "0", "0", "1">>,
                    <<".", "0", "0", "0", "0", "1">>, <<".", "i", "m", "g">> >>
EWFEXTENSIONS == << <<".", "e", "0", "1">>, <<".", "s", "0", "1">>, <<".", "e", "x", "0", "1">>,
                    <<".", "l", "x", "0", "1">>, <<".", "l", "0", "1">> >>

\* EXTENSIONS once the module is imported: the ewf formats are added only
\* when pyewf could be imported
EXTENSIONS(ewf) == IF ewf THEN RAWEXTENSIONS \o EWFEXTENSIONS ELSE RAWEXTENSIONS

IMAGE_UNKNOWN == 0
IMAGE_DD == 1
IMAGE_EWF == 2

get_imagetype(filename, ewf) ==
    IF EndsWithAny(StrLower(filename), EWFEXTENSIONS) THEN IMAGE_EWF
    ELSE IF EndsWithAny(StrLower(filename), EXTENSIONS(ewf)) THEN IMAGE_DD
    ELSE IMAGE_UNKNOWN

(***************************************************************************)
(* Regular expressions: re.compile and pattern.match on the fragment the   *)
(* searches use: literals, backslash escapes, ".", ".*" and "$".            *)
(***************************************************************************)
RegexSpecial == {"(", ")", "[", "*", "+", "?"}

\* re.compile(string): [ok, toks]; ok is FALSE where re raises re.error
ReError == [ok |-> FALSE, toks |-> <<>>]
ReCons(tok, rest) == IF rest.ok THEN [ok |-> TRUE, toks |-> <<tok>> \o rest.toks] ELSE ReError

RECURSIVE Compile(_)
Compile(s) ==
    IF Len(s) = 0 THEN [ok |-> TRUE, toks |-> <<>>]
    ELSE IF s[1] = "\\" THEN
        IF Len(s) = 1 THEN ReError
        ELSE ReCons([t |-> "lit", c |-> s[2]], Compile(SubSeq(s, 3, Len(s))))
    ELSE IF s[1] = "." THEN
        IF Len(s) >= 2 /\ s[2] = "*"
        THEN ReCons([t |-> "anystar", c |-> "."], Compile(SubSeq(s, 3, Len(s))))
        ELSE ReCons([t |-> "any", c |-> "."], Compile(Tail(s)))
    ELSE IF s[1] = "$" THEN ReCons([t |-> "end", c |-> "$"], Compile(Tail(s)))
    ELSE IF s[1] \in RegexSpecial THEN ReError
    ELSE ReCons([t |-> "lit", c |-> s[1]], Compile(Tail(s)))

\* pattern.match(s): the pattern matches at the START of s (not necessarily
\* all of it); ic is re.IGNORECASE
RECURSIVE ReMatch(_, _, _)
ReMatch(toks, s, ic) ==
    IF Len(toks) = 0 THEN TRUE
    ELSE LET h == toks[1] IN
        IF h.t = "end" THEN Len(s) = 0 /\ ReMatch(Tail(toks), s, ic)
        ELSE IF h.t = "any" THEN Len(s) > 0 /\ ReMatch(Tail(toks), Tail(s), ic)
        ELSE IF h.t = "anystar"
             THEN \E k \in 0..Len(s) : ReMatch(Tail(toks), SubSeq(s, k + 1, Len(s)), ic)
        ELSE /\ Len(s) > 0
             /\ IF ic THEN CharLower(h.c) = CharLower(s[1]) ELSE h.c = s[1]
             /\ ReMatch(Tail(toks), Tail(s), ic)

(***************************************************************************)
(* The world outside the program: what pytsk3, pyewf and the local file    *)
(* system answer.  It is fixed, so that two enumerations of one image see  *)
(* the same bytes.                                                          *)
(***************************************************************************)
\* Directory entries as pytsk3 lists them.  fs: the file system holding the
\* entry; parent: the entry of its directory (0: the root directory);
\* meta: info.meta is present; inode: info.meta.addr; dirOk: open_dir on it
\* succeeds; content: the byte source the file's data forms.
Entries == <<
  [fs |-> 1, parent |-> 0, name |-> <<".">>,                kind |-> "dir",  meta |-> TRUE,  inode |-> 5,  dirOk |-> TRUE,  content |-> "JUNK"],
  [fs |-> 1, parent |-> 0, name |-> <<"a", ".", "t">>,      kind |-> "file", meta |-> TRUE,  inode |-> 11, dirOk |-> FALSE, content |-> "JUNK"],
  [fs |-> 1, parent |-> 0, name |-> <<"d">>,                kind |-> "dir",  meta |-> TRUE,  inode |-> 12, dirOk |-> TRUE,  content |-> "JUNK"],
  [fs |-> 1, parent |-> 3, name |-> <<".", ".">>,           kind |-> "dir",  meta |-> TRUE,  inode |-> 5,  dirOk |-> TRUE,  content |-> "JUNK"],
  [fs |-> 1, parent |-> 3, name |-> <<"i", "n", ".", "D", "d">>, kind |-> "file", meta |-> TRUE, inode |-> 13, dirOk |-> FALSE, content |-> "INNER"],
  [fs |-> 1, parent |-> 3, name |-> <<"A", ".", "T">>,      kind |-> "file", meta |-> TRUE,  inode |-> 14, dirOk |-> FALSE, content |-> "JUNK"],
  [fs |-> 1, parent |-> 0, name |-> <<"n", "m">>,           kind |-> "file", meta |-> FALSE, inode |-> 0,  dirOk |-> FALSE, content |-> "JUNK"],
  [fs |-> 2, parent |-> 0, name |-> <<"x", ".", "d", "d">>, kind |-> "file", meta |-> TRUE,  inode |-> 21, dirOk |-> FALSE, content |-> "JUNK"],
  [fs |-> 2, parent |-> 0, name |-> <<"c", ".", "t">>,      kind |-> "file", meta |-> TRUE,  inode |-> 22, dirOk |-> FALSE, content |-> "JUNK"],
  [fs |-> 3, parent |-> 0, name |-> <<"a", ".", "t">>,      kind |-> "file", meta |-> TRUE,  inode |-> 31, dirOk |-> FALSE, content |-> "JUNK"],
  [fs |-> 3, parent |-> 0, name |-> <<"s">>,                kind |-> "dir",  meta |-> TRUE,  inode |-> 32, dirOk |-> TRUE,  content |-> "JUNK"],
  [fs |-> 3, parent |-> 11, name |-> <<"b", ".", "T">>,     kind |-> "file", meta |-> TRUE,  inode |-> 33, dirOk |-> FALSE, content |-> "JUNK"],
  [fs |-> 4, parent |-> 0, name |-> <<"k", ".", "t">>,      kind |-> "file", meta |-> TRUE,  inode |-> 41, dirOk |-> FALSE, content |-> "JUNK"],
  [fs |-> 4, parent |-> 0, name |-> <<"z", ".", "i", "m", "g">>, kind |-> "file", meta |-> TRUE, inode |-> 0, dirOk |-> FALSE, content |-> "JUNK"],
  [fs |-> 4, parent |-> 0, name |-> <<"w", ".", "t">>,      kind |-> "file", meta |-> TRUE,  inode |-> 43, dirOk |-> FALSE, content |-> "JUNK"],
  [fs |-> 4, parent |-> 0, name |-> <<"u">>,                kind |-> "dir",  meta |-> TRUE,  inode |-> 44, dirOk |-> FALSE, content |-> "JUNK"],
  [fs |-> 5, parent |-> 0, name |-> <<"q", ".", "t">>,      kind |-> "file", meta |-> TRUE,  inode |-> 51, dirOk |-> FALSE, content |-> "JUNK"],
  [fs |-> 5, parent |-> 0, name |-> <<"j", ".", "e", "0", "1">>, kind |-> "file", meta |-> TRUE, inode |-> 52, dirOk |-> FALSE, content |-> "JUNK"],
  [fs |-> 6, parent |-> 0, name |-> <<"p", ".", "t">>,      kind |-> "file", meta |-> TRUE,  inode |-> 61, dirOk |-> FALSE, content |-> "JUNK"],
  [fs |-> 8, parent |-> 0, name |-> <<"l", ".", "d", "d">>, kind |-> "file", meta |-> TRUE,  inode |-> 81, dirOk |-> FALSE, content |-> "CYC"]
>>

EntryIds == 1..Len(Entries)

\* The file systems: ntfs: info.ftype is an NTFS code; rootOk: open_dir('/')
\* succeeds.
FsInfo == <<
  [ntfs |-> TRUE,  rootOk |-> TRUE],
  [ntfs |-> FALSE, rootOk |-> TRUE],
  [ntfs |-> TRUE,  rootOk |-> TRUE],
  [ntfs |-> FALSE, rootOk |-> TRUE],
  [ntfs |-> TRUE,  rootOk |-> TRUE],
  [ntfs |-> FALSE, rootOk |-> TRUE],
  [ntfs |-> FALSE, rootOk |-> FALSE],
  [ntfs |-> FALSE, rootOk |-> TRUE]
>>

\* Byte sources.  ewf: the bytes are an EWF container (read raw they are no
\* volume); vol: what pytsk3.Volume_Info does on them: "table", "notable"
\* (OSError 'Cannot determine partition type'), "oserr" (another OSError or
\* IOError) or "rterr" (RuntimeError); bsize: the table's sector size;
\* parts: the start sector of each table entry; vols: the file systems and
\* the byte offset each one lies at.
ContentIds == {"M", "INNER", "JUNK", "F", "E", "IO", "RT", "K4", "B", "CYC"}
Contents == [c \in ContentIds |->
  CASE c = "M"     -> [ewf |-> FALSE, vol |-> "table",   bsize |-> 512, parts |-> <<0, 2, 4, 8>>,
                       vols |-> {[off |-> 1024, fs |-> 1], [off |-> 2048, fs |-> 2]}]
    [] c = "INNER" -> [ewf |-> FALSE, vol |-> "notable", bsize |-> 512, parts |-> <<>>,
                       vols |-> {[off |-> 0, fs |-> 3]}]
    [] c = "JUNK"  -> [ewf |-> FALSE, vol |-> "notable", bsize |-> 512, parts |-> <<>>, vols |-> {}]
    [] c = "F"     -> [ewf |-> FALSE, vol |-> "notable", bsize |-> 512, parts |-> <<>>,
                       vols |-> {[off |-> 0, fs |-> 4]}]
    [] c = "E"     -> [ewf |-> TRUE,  vol |-> "notable", bsize |-> 512, parts |-> <<>>,
                       vols |-> {[off |-> 0, fs |-> 5]}]
    [] c = "IO"    -> [ewf |-> FALSE, vol |-> "oserr",   bsize |-> 512, parts |-> <<>>, vols |-> {}]
    [] c = "RT"    -> [ewf |-> FALSE, vol |-> "rterr",   bsize |-> 512, parts |-> <<>>, vols |-> {}]
    \* a disk of 4096-byte sectors: partitions at sectors 256 and 2048, the
    \* first one holding a file system
    [] c = "K4"    -> [ewf |-> FALSE, vol |-> "table",   bsize |-> 4096, parts |-> <<256, 2048>>,
                       vols |-> {[off |-> 1048576, fs |-> 6]}]
    \* a partition whose file system opens but has a damaged root directory
    [] c = "B"     -> [ewf |-> FALSE, vol |-> "table",   bsize |-> 512, parts |-> <<0, 2>>,
                       vols |-> {[off |-> 1024, fs |-> 7]}]
    \* a volume made so that the data of its file l.dd is the volume itself
    [] c = "CYC"   -> [ewf |-> FALSE, vol |-> "notable", bsize |-> 512, parts |-> <<>>,
                       vols |-> {[off |-> 0, fs |-> 8]}]]

\* What a handle of the given kind reads from a byte source
View(c, kind) == IF Contents[c].ewf /\ kind = "raw" THEN "JUNK" ELSE c

\* Files of the local file system, by path.  exists: os.path.isfile;
\* readable: the file can be opened for reading.
HostPaths == {"m", "blob", "f", "e", "bade", "gone", "io", "rt", "perm", "k4", "brk", "cyc"}
HostFiles == [p \in HostPaths |->
  CASE p = "m"    -> [path |-> <<"i", "/", "m", ".", "d", "d">>,      exists |-> TRUE,  readable |-> TRUE,  content |-> "M"]
    [] p = "blob" -> [path |-> <<"b", "l", "b">>,                     exists |-> TRUE,  readable |-> TRUE,  content |-> "JUNK"]
    [] p = "f"    -> [path |-> <<"f", ".", "i", "m", "g">>,           exists |-> TRUE,  readable |-> TRUE,  content |-> "F"]
    [] p = "e"    -> [path |-> <<"e", ".", "E", "0", "1">>,           exists |-> TRUE,  readable |-> TRUE,  content |-> "E"]
    [] p = "bade" -> [path |-> <<"b", ".", "e", "0", "1">>,           exists |-> TRUE,  readable |-> TRUE,  content |-> "JUNK"]
    [] p = "gone" -> [path |-> <<"g", ".", "d", "d">>,                exists |-> FALSE, readable |-> FALSE, content |-> "JUNK"]
    [] p = "io"   -> [path |-> <<"i", "/", "i", "0", ".", "d", "d">>, exists |-> TRUE,  readable |-> TRUE,  content |-> "IO"]
    [] p = "rt"   -> [path |-> <<"q", ".", "0", "0", "1">>,           exists |-> TRUE,  readable |-> TRUE,  content |-> "RT"]
    [] p = "perm" -> [path |-> <<"u", ".", "d", "d">>,                exists |-> TRUE,  readable |-> FALSE, content |-> "M"]
    [] p = "k4"   -> [path |-> <<"k", ".", "d", "d">>,                exists |-> TRUE,  readable |-> TRUE,  content |-> "K4"]
    [] p = "brk"  -> [path |-> <<"r", ".", "d", "d">>,                exists |-> TRUE,  readable |-> TRUE,  content |-> "B"]
    [] p = "cyc"  -> [path |-> <<"y", ".", "d", "d">>,                exists |-> TRUE,  readable |-> TRUE,  content |-> "CYC"]]

\* The entries of one directory, in the order pytsk3 lists them
Children(fs, dir) ==
    LET ids == {e \in EntryIds : Entries[e].fs = fs /\ Entries[e].parent = dir}
        RECURSIVE Asc(_)
        Asc(S) == IF S = {} THEN <<>>
                  ELSE LET m == CHOOSE x \in S : \A y \in S : x <= y
                       IN <<m>> \o Asc(S \ {m})
    IN Asc(ids)

(***************************************************************************)
(* Opening a byte source: get_imagehandle, get_imagehandle_from_file       *)
(* A result is [val, kind, exc, attempts]: val is "handle", "None" or      *)
(* "raise"; attempts lists the open attempts made, in order.                *)
(***************************************************************************)
NoHandle(attempts) == [val |-> "None", kind |-> "none", exc |-> "", attempts |-> attempts]
Raised(exc, attempts) == [val |-> "raise", kind |-> "none", exc |-> exc, attempts |-> attempts]
Handle(kind, attempts) == [val |-> "handle", kind |-> kind, exc |-> "", attempts |-> attempts]

\* The order in which an unknown type is bruteforced
BRUTEFORCE_FILE == <<IMAGE_EWF, IMAGE_DD>>
BRUTEFORCE_ITEMS == <<IMAGE_DD, IMAGE_EWF>>

\* get_imagehandle_from_file for IMAGE_EWF and IMAGE_DD
HandleFromFileTyped(host, imagetype, ewf) ==
    IF imagetype = IMAGE_EWF /\ ewf THEN
        \* ewf_handle.open(filenames): any exception gives None
        IF host.readable /\ Contents[host.content].ewf
        THEN Handle("ewf", <<"ewf">>)
        ELSE NoHandle(<<"ewf">>)
    ELSE IF imagetype = IMAGE_DD THEN
        \* pytsk3.Img_Info(imagefile) raises IOError on a file it cannot read
        IF host.readable THEN Handle("raw", <<"raw">>) ELSE Raised("IOError", <<"raw">>)
    ELSE
        \* IMAGE_EWF without pyewf: no branch is taken
        NoHandle(<<"ewf">>)

get_imagehandle_from_file(host, imagetype, ewf) ==
    IF imagetype = IMAGE_UNKNOWN THEN
        LET a == HandleFromFileTyped(host, BRUTEFORCE_FILE[1], ewf) IN
        IF a.val # "None" THEN a
        ELSE LET b == HandleFromFileTyped(host, BRUTEFORCE_FILE[2], ewf)
             IN [b EXCEPT !.attempts = a.attempts \o b.attempts]
    ELSE HandleFromFileTyped(host, imagetype, ewf)

\* Item.open -> FileSystem.get_file_handle(inode=...): None when the inode
\* is falsy
ItemOpen(e) == IF Entries[e].inode # 0 THEN "file" ELSE "None"

\* get_imagehandle for IMAGE_EWF and IMAGE_DD, on a list of one item
HandleFromItemTyped(e, imagetype, ewf) ==
    IF imagetype = IMAGE_EWF THEN
        IF ~ewf THEN Raised("NameError", <<"ewf">>)
        ELSE IF ItemOpen(e) = "file" /\ Contents[Entries[e].content].ewf
        THEN Handle("ewf", <<"ewf">>)
        ELSE Raised("IOError", <<"ewf">>)
    ELSE IF ItemOpen(e) = "file" THEN Handle("raw", <<"raw">>)
    ELSE NoHandle(<<"raw">>)

get_imagehandle(e, imagetype, ewf) ==
    IF imagetype = IMAGE_UNKNOWN THEN
        LET a == HandleFromItemTyped(e, BRUTEFORCE_ITEMS[1], ewf) IN
        IF a.val # "None" THEN a
        ELSE LET b == HandleFromItemTyped(e, BRUTEFORCE_ITEMS[2], ewf)
             IN [b EXCEPT !.attempts = a.attempts \o b.attempts]
    ELSE HandleFromItemTyped(e, imagetype, ewf)

(***************************************************************************)
(* DiskImage.get_filesystems                                               *)
(* A result is [val, exc, list, closed, mounts, vol]: val is "list",       *)
(* "None" or "raise"; list holds the FileSystem objects [fs, offset,       *)
(* fstype]; closed: imagehandle.close() was called; mounts: the            *)
(* FileSystem(...) calls made; vol: what pytsk3.Volume_Info did.           *)
(***************************************************************************)
SECTOR_SIZE == 512

\* FileSystem(imagehandle, offset): the file system at that byte offset, 0
\* where pytsk3.FS_Info raises
Mount(view, offset) ==
    LET hit == {v \in Contents[view].vols : v.off = offset}
    IN IF hit = {} THEN 0 ELSE (CHOOSE v \in hit : TRUE).fs

IsNTFS(fs) == FsInfo[fs].ntfs

\* start is no attribute of the FileSystem: it is the start sector of the
\* table entry the object was made for
FsObject(fs, offset, start) ==
    [fs |-> fs, offset |-> offset, fstype |-> IF IsNTFS(fs) THEN "NTFS" ELSE "*unknown*",
     start |-> start]

\* FileSystem.__bool__: the root directory can be opened
FsBool(fs) == FsInfo[fs].rootOk

\* the loop over the partition table
RECURSIVE MountPartitions(_, _, _)
MountPartitions(view, parts, acc) ==
    IF parts = <<>> THEN acc
    ELSE LET fs == Mount(view, parts[1] * SECTOR_SIZE)
         IN MountPartitions(view, Tail(parts),
                IF fs = 0 THEN acc ELSE Append(acc, FsObject(fs, parts[1] * SECTOR_SIZE, parts[1])))

get_filesystems(view) ==
    LET c == Contents[view] IN
    IF c.vol = "oserr" THEN
        \* caught by `except OSError`, which leaves partitionTable unbound
        [val |-> "raise", exc |-> "UnboundLocalError", list |-> <<>>, closed |-> FALSE, mounts |-> 0, vol |-> c.vol]
    ELSE IF c.vol = "rterr" THEN
        [val |-> "None", exc |-> "", list |-> <<>>, closed |-> TRUE, mounts |-> 0, vol |-> c.vol]
    ELSE IF c.vol = "table" THEN
        [val |-> "list", exc |-> "", list |-> MountPartitions(view, c.parts, <<>>),
         closed |-> FALSE, mounts |-> Len(c.parts), vol |-> c.vol]
    ELSE LET fs == Mount(view, 0) IN
        [val |-> "list", exc |-> "",
         list |-> IF fs # 0 /\ FsBool(fs) THEN <<FsObject(fs, 0, 0)>> ELSE <<>>,
         closed |-> FALSE, mounts |-> 1, vol |-> c.vol]

(***************************************************************************)
(* DiskImage.from_file and DiskImage.from_items                            *)
(* A result is [val, exc, di, opened, closed, attempts, mounts, vol]: val  *)
(* is "di", "None" or "raise"; di is the DiskImage object [name, parents,  *)
(* filesystems]; parents is the address of a list; filesystems.none says   *)
(* that the attribute is None, filesystems.list is the list otherwise;     *)
(* opened: an image handle was obtained.                                   *)
(***************************************************************************)
\* The addresses of the lists that are default argument values: they are
\* created once, when the function is defined.
DEFAULT_INIT_PARENTS == 1
DEFAULT_FROM_ITEMS_PARENTS == 2

DiskImageObject(name, parents, scan) ==
    [name |-> name, parents |-> parents,
     filesystems |-> [none |-> scan.val = "None", list |-> scan.list]]

NoDiskImage == [name |-> <<>>, parents |-> 0, filesystems |-> [none |-> TRUE, list |-> <<>>]]

OpenOutcome(val, exc, di, h, opened, closed, mounts, vol) ==
    [val |-> val, exc |-> exc, di |-> di, opened |-> opened, closed |-> closed,
     attempts |-> h.attempts, mounts |-> mounts, vol |-> vol]

\* the part of from_file and from_items after the image handle is obtained
OpenResult(name, parents, h, content) ==
    IF h.val = "raise" THEN OpenOutcome("raise", h.exc, NoDiskImage, h, FALSE, FALSE, 0, "")
    ELSE IF h.val = "None" THEN OpenOutcome("None", "", NoDiskImage, h, FALSE, FALSE, 0, "")
    ELSE LET scan == get_filesystems(View(content, h.kind)) IN
        IF scan.val = "raise"
        THEN OpenOutcome("raise", scan.exc, NoDiskImage, h, TRUE, scan.closed, scan.mounts, scan.vol)
        ELSE OpenOutcome("di", "", DiskImageObject(name, parents, scan), h, TRUE, scan.closed,
                         scan.mounts, scan.vol)

from_file(p, ewf) ==
    LET host == HostFiles[p] IN
    IF ~host.exists
    THEN OpenOutcome("None", "", NoDiskImage, NoHandle(<<>>), FALSE, FALSE, 0, "")
    ELSE OpenResult(BaseName(host.path), DEFAULT_INIT_PARENTS,
                    get_imagehandle_from_file(host, get_imagetype(host.path, ewf), ewf),
                    host.content)

from_items(e, imagename, parents, ewf) ==
    OpenResult(imagename, parents,
               get_imagehandle(e, get_imagetype(imagename, ewf), ewf),
               Entries[e].content)

(***************************************************************************)
(* ExtPytskFile, the file handle of Item.open                              *)
(***************************************************************************)
SEEK_SET == 0
SEEK_CUR == 1
SEEK_END == 2

\* the bytes of a file of the given size: byte i is i
FileData(size) == [i \in 1..size |-> i]

\* ExtPytskFile.seek: the new value of self.offset; whence is the tuple of
\* the optional arguments
seek(size, cursor, offset, whence) ==
    IF whence = <<>> THEN offset
    ELSE IF whence[1] = SEEK_CUR THEN cursor + offset
    ELSE IF whence[1] = SEEK_END THEN size - offset
    ELSE offset

\* pytsk3's read_random(offset, n): the bytes from the offset on, cut at
\* the end of the file; at an offset that is not inside the file pytsk3
\* gives nothing or raises IOError
read_random(size, offset, n) ==
    IF 0 <= offset /\ offset < size
    THEN {[val |-> SubSeq(FileData(size), offset + 1, IF offset + n < size THEN offset + n ELSE size),
           exc |-> ""]}
    ELSE {[val |-> <<>>, exc |-> ""], [val |-> <<>>, exc |-> "IOError"]}

(***************************************************************************)
(* Bounds of the model                                                     *)
(***************************************************************************)
\* enumerations (get_items or find calls) the caller starts
MaxRuns == 2

\* the DiskImage.get_items generators that can be nested in one another
\* before the interpreter's recursion limit is reached (yield from resumes
\* the innermost generator through all the outer ones)
MaxDepth == 3

\* the strings the caller searches for: a name (as a pattern, one that is
\* found in the middle of paths only), a pattern for the end of the path, a
\* pattern for the beginning of an image name, and one that re.compile
\* rejects
FindStrings == { <<"a", ".", "t">>,
                 <<".", "*", "\\", ".", "t", "$">>,
                 <<"m", ".", "*">>,
                 <<"(">> }

\* the file handle: the sizes of the file, the arguments of seek and read,
\* and how far the offset is followed
MaxSize == 3
MaxSeek == 3
MaxRead == 4
MaxCursor == 6

\* the commands of the command line: none (print_info) and fls
Commands == {"info", "fls"}

(***************************************************************************)
(* State                                                                   *)
(***************************************************************************)
VARIABLES
    ewf,      \* pyewf could be imported
    heap,     \* the lists used as `parents`, by address
    image,    \* the DiskImage object the caller holds (NoDiskImage: none yet)
    ret,      \* what the last from_file / from_items / main call gave
    status,   \* of the enumeration: "idle", "new", "run", "done", "fault", "dropped"
    call,     \* the enumeration's call: get_items or find, and its arguments
    stack,    \* the DiskImage.get_items generators, outermost first
    seen,     \* the items DiskImage.get_items has yielded
    out,      \* the items the caller has received
    exc,      \* the exception that ended the enumeration
    nested,   \* image handles opened by the enumeration and not closed
    nruns,    \* enumerations started
    file,     \* the file handle the caller got from Item.open (NoFile: none)
    born      \* of the image the caller holds: its parents list as it was
              \* when the image was returned, and the enumerations started
              \* on it since

vars == <<ewf, heap, image, ret, status, call, stack, seen, out, exc, nested, nruns, file, born>>

NoRet == [op |-> "none", arg |-> "", val |-> "none", exc |-> "", attempts |-> <<>>,
          opened |-> FALSE, closed |-> FALSE, mounts |-> 0, vol |-> "", itype |-> IMAGE_UNKNOWN]
NoCall == [op |-> "none", di |-> NoDiskImage, rec |-> FALSE, str |-> <<>>, ic |-> FALSE, regex |-> FALSE]

\* the last call on the file handle: seek(arg, *whence) or read(arg), the
\* offset it found, and what read returned or raised
NoOp == [op |-> "none", arg |-> 0, whence |-> <<>>, before |-> 0, val |-> <<>>, exc |-> ""]
NoFile == [open |-> FALSE, size |-> 0, offset |-> 0, last |-> NoOp]

NoBirth == [parents |-> <<>>, runs |-> 0]

Truthy(filesystems) == ~filesystems.none /\ Len(filesystems.list) > 0

Digits == <<"0", "1", "2", "3", "4", "5", "6", "7", "8", "9">>

\* str(i) for i >= 0
RECURSIVE IntStr(_)
IntStr(i) == IF i < 10 THEN <<Digits[i + 1]>> ELSE IntStr(i \div 10) \o <<Digits[(i % 10) + 1]>>

\* 'fs' + str(i), as one element of a parents list
FsLabel(i) == <<"f", "s">> \o IntStr(i)

Init ==
    /\ ewf \in BOOLEAN
    /\ heap = << <<>>, <<>> >>
    /\ image = NoDiskImage
    /\ ret = NoRet
    /\ status = "idle"
    /\ call = NoCall
    /\ stack = <<>>
    /\ seen = <<>>
    /\ out = <<>>
    /\ exc = ""
    /\ nested = 0
    /\ nruns = 0
    /\ file = NoFile
    /\ born = NoBirth

\* the caller, a program other than the command line, is between two calls
Idle == status = "idle" /\ ret.op # "main"

(***************************************************************************)
(* The caller opens image                                                 *)
(***************************************************************************)
RetOf(op, arg, r, itype) ==
    [op |-> op, arg |-> arg, val |-> r.val, exc |-> r.exc, attempts |-> r.attempts,
     opened |-> r.opened, closed |-> r.closed, mounts |-> r.mounts, vol |-> r.vol, itype |-> itype]

\* image = DiskImage.from_file(path)
FromFile(p) ==
    /\ Idle
    /\ LET r == from_file(p, ewf) IN
        /\ ret' = RetOf("from_file", p, r, get_imagetype(HostFiles[p].path, ewf))
        /\ image' = IF r.val = "di" THEN r.di ELSE image
        /\ born' = IF r.val = "di" THEN [parents |-> heap[r.di.parents], runs |-> 0] ELSE born
    /\ UNCHANGED <<ewf, file, heap, status, call, stack, seen, out, exc, nested, nruns>>

\* MainMessage, had main not tested os.path.isfile
MainMessage_NoIsfile(p, cmd, pyewf) ==
    LET r == from_file(p, pyewf) IN
    IF r.val = "raise" THEN "raise"
    ELSE IF r.val = "None" THEN "not_supported"
    ELSE IF ~Truthy(r.di.filesystems) THEN "no_filesystems"
    ELSE IF cmd = "fls" THEN "listing" ELSE "filesystems"

\* what main prints for a path (lines 72-80 of __main__.py, with print_info
\* and fls): "not_exist" the ERROR! line of main, "not_supported" the
\* *ERROR* line, "no_filesystems" the `Found no supported filesystems`
\* line, "filesystems" the list print_info prints, "listing" the items fls
\* prints, "raise" an exception nothing catches
MainMessage(p, cmd, pyewf) ==
    IF ~HostFiles[p].exists THEN "not_exist"
    ELSE LET r == from_file(p, pyewf) IN
         IF r.val = "raise" THEN "raise"
         ELSE IF r.val = "None" THEN "not_supported"
         ELSE IF ~Truthy(r.di.filesystems) THEN "no_filesystems"
         ELSE IF cmd = "fls" THEN "listing" ELSE "filesystems"

\* the names a caller gives an image it opens from an item: the item's own
\* name, or that name without its extension
StripExt(name) ==
    IF \E i \in 1..Len(name) : name[i] = "."
    THEN SubSeq(name, 1, (CHOOSE i \in 1..Len(name) : name[i] = "." /\ \A j \in (i + 1)..Len(name) : name[j] # ".") - 1)
    ELSE name

\* the items the caller opens as image itself
ItemInputs == {5, 8, 14}

HasImage == image # NoDiskImage

\* image = DiskImage.from_items([item], imagename=...), the item being entry
\* e of a file system of the image the caller holds
FromItems(e, strip) ==
    /\ Idle
    /\ HasImage
    /\ \E j \in 1..Len(image.filesystems.list) : image.filesystems.list[j].fs = Entries[e].fs
    /\ LET imagename == IF strip THEN StripExt(Entries[e].name) ELSE Entries[e].name
           r == from_items(e, imagename, DEFAULT_FROM_ITEMS_PARENTS, ewf) IN
        /\ ret' = RetOf("from_items", "", r, get_imagetype(imagename, ewf))
        /\ image' = IF r.val = "di" THEN r.di ELSE image
        /\ born' = IF r.val = "di" THEN [parents |-> heap[r.di.parents], runs |-> 0] ELSE born
    /\ UNCHANGED <<ewf, file, heap, status, call, stack, seen, out, exc, nested, nruns>>

\* python -m diskimage [fls] path, a process of its own: fls goes through
\* image.get_items() of the image it opens, and nothing follows main
Main(p, cmd) ==
    /\ status = "idle" /\ ret = NoRet /\ image = NoDiskImage /\ nruns = 0
    /\ LET msg == MainMessage(p, cmd, ewf) IN
        /\ msg = "listing" => nruns < MaxRuns
        /\ ret' = [NoRet EXCEPT !.op = "main", !.arg = p, !.val = msg]
        /\ IF msg = "listing"
           THEN /\ call' = [NoCall EXCEPT !.op = "get_items", !.di = from_file(p, ewf).di, !.rec = TRUE]
                /\ status' = "new"
                /\ nruns' = nruns + 1
           ELSE UNCHANGED <<call, status, nruns>>
    /\ UNCHANGED <<ewf, file, born, heap, image, stack, seen, out, exc, nested>>

(***************************************************************************)
(* DiskImage.get_items and DiskImage.find as generators                    *)
(*                                                                         *)
(* A DiskImage.get_items generator is a frame [di, rec, pc, i, fsp, dirs,  *)
(* item]: di the DiskImage, rec its `recursive` argument, i the index of   *)
(* the file system it is in, fsp the address of `fsparents`, dirs the      *)
(* FileSystem.get_items generators it pulls from (one per directory being  *)
(* listed, outermost first), item the entry it yielded last.  pc:          *)
(*   "enter"    before line 65                                             *)
(*   "fs"       at the head of the loop of line 68                         *)
(*   "pull"     inside next() of filesystem.get_items (line 71)            *)
(*   "resume"   resumed after the yield of line 73                         *)
(*   "fsresume" the file system generator resumed after its yield          *)
(* A FileSystem.get_items generator is [dir, path, pc, idx]: pc "open"     *)
(* before line 75, "iter" at the head of the loop of line 78.              *)
(***************************************************************************)
DIFrame(di, rec) ==
    [di |-> di, rec |-> rec, pc |-> "enter", i |-> 0, fsp |-> 0, dirs |-> <<>>, item |-> 0]

DirFrame(dir, path) == [dir |-> dir, path |-> path, pc |-> "open", idx |-> 1]

Top == stack[Len(stack)]
SetTop(f) == [stack EXCEPT ![Len(stack)] = f]
TopDir == Top.dirs[Len(Top.dirs)]
SetTopDir(d) == [Top EXCEPT !.dirs = [Top.dirs EXCEPT ![Len(Top.dirs)] = d]]
Running == status = "run" /\ Len(stack) > 0

\* FindMatches, had line 114 compared the names as they are
FindMatches_NoUpper(c, name, path) ==
    IF c.regex
    THEN ReMatch(Compile(c.str).toks, PathJoin(path, name), c.ic)
    ELSE name = c.str

\* FindMatches, had line 110 used pattern.search
FindMatches_Search(c, name, path) ==
    IF c.regex
    THEN LET s == PathJoin(path, name)
         IN \E i \in 1..Len(s) : ReMatch(Compile(c.str).toks, SubSeq(s, i, Len(s)), c.ic)
    ELSE IF c.ic THEN StrUpper(name) = StrUpper(c.str) ELSE name = c.str

\* the test DiskImage.find applies to an item (lines 108-118)
FindMatches(c, name, path) ==
    IF c.regex
    THEN ReMatch(Compile(c.str).toks, PathJoin(path, name), c.ic)
    ELSE IF c.ic THEN StrUpper(name) = StrUpper(c.str) ELSE name = c.str

\* items = image.get_items(recursive) / image.get_items()
CallGetItems(rec) ==
    /\ Idle
    /\ nruns < MaxRuns
    /\ HasImage
    /\ call' = [NoCall EXCEPT !.op = "get_items", !.di = image, !.rec = rec]
    /\ status' = "new"
    /\ ret' = NoRet
    /\ nruns' = nruns + 1
    /\ born' = [born EXCEPT !.runs = @ + 1]
    /\ UNCHANGED <<ewf, file, heap, image, stack, seen, out, exc, nested>>

\* items = image.find(string, recursive, ignorecase, regex)
CallFind(str, rec, ic, regex) ==
    /\ Idle
    /\ nruns < MaxRuns
    /\ HasImage
    /\ call' = [op |-> "find", di |-> image, rec |-> rec, str |-> str, ic |-> ic, regex |-> regex]
    /\ status' = "new"
    /\ ret' = NoRet
    /\ nruns' = nruns + 1
    /\ born' = [born EXCEPT !.runs = @ + 1]
    /\ UNCHANGED <<ewf, file, heap, image, stack, seen, out, exc, nested>>

\* The first next(): find compiles its pattern (lines 100-105), then the
\* DiskImage.get_items generator is created
Begin ==
    /\ status = "new"
    /\ IF call.op = "find" /\ call.regex /\ ~Compile(call.str).ok
       THEN /\ status' = "fault"
            /\ exc' = "re.error"
            /\ UNCHANGED stack
       ELSE /\ status' = "run"
            /\ stack' = <<DIFrame(call.di, call.rec)>>
            /\ UNCHANGED exc
    /\ UNCHANGED <<ewf, file, born, heap, image, ret, call, seen, out, nested, nruns>>

\* A DiskImage.get_items generator returns: the generator that delegated to
\* it (yield from, line 81) goes on, or the enumeration is exhausted
PopDI ==
    IF Len(stack) = 1
    THEN /\ stack' = <<>>
         /\ status' = "done"
    ELSE /\ stack' = [SubSeq(stack, 1, Len(stack) - 1) EXCEPT ![Len(stack) - 1].pc = "fsresume"]
         /\ UNCHANGED status

\* DIEnter without the test of line 65
DIEnter_NoGuard ==
    /\ Running
    /\ Top.pc = "enter"
    /\ IF ~Top.di.filesystems.none
       THEN /\ heap' = [heap EXCEPT ![Top.di.parents] = Append(@, Top.di.name)]
            /\ stack' = SetTop([Top EXCEPT !.pc = "fs", !.i = 0])
            /\ UNCHANGED <<status, exc>>
       ELSE \* enumerate(None)
            /\ heap' = [heap EXCEPT ![Top.di.parents] = Append(@, Top.di.name)]
            /\ stack' = <<>>
            /\ status' = "fault"
            /\ exc' = "TypeError"
    /\ UNCHANGED <<ewf, file, born, image, ret, call, seen, out, nested, nruns>>

\* lines 65-67 and 82-83
DIEnter ==
    /\ Running
    /\ Top.pc = "enter"
    /\ IF Truthy(Top.di.filesystems)
       THEN /\ heap' = [heap EXCEPT ![Top.di.parents] = Append(@, Top.di.name)]
            /\ stack' = SetTop([Top EXCEPT !.pc = "fs", !.i = 0])
            /\ UNCHANGED status
       ELSE /\ PopDI
            /\ UNCHANGED heap
    /\ UNCHANGED <<ewf, file, born, image, ret, call, seen, out, exc, nested, nruns>>

\* lines 68-71: the next file system, its fsparents and its generator
DINextFs ==
    /\ Running
    /\ Top.pc = "fs"
    /\ IF Top.i < Len(Top.di.filesystems.list)
       THEN /\ heap' = Append(heap, Append(heap[Top.di.parents], FsLabel(Top.i)))
            /\ stack' = SetTop([Top EXCEPT !.pc = "pull", !.fsp = Len(heap) + 1,
                                           !.dirs = <<DirFrame(0, <<"/">>)>>])
            /\ UNCHANGED status
       ELSE /\ PopDI
            /\ UNCHANGED heap
    /\ UNCHANGED <<ewf, file, born, image, ret, call, seen, out, exc, nested, nruns>>

\* the file system the innermost DiskImage.get_items generator is listing
CurFs == Top.di.filesystems.list[Top.i + 1].fs

\* FileSystem.get_directory (lines 54-61): None when open_dir raises
get_directory(fs, dir) == IF dir = 0 THEN FsInfo[fs].rootOk ELSE Entries[dir].dirOk

\* Item.from_pytsk_item gives an Item (lines 38-49) and the item is not a
\* link to the current or the parent directory (line 82)
IsListed(e) == Entries[e].meta /\ Entries[e].name \notin {<<".">>, <<".", ".">>}

\* what the caller gets of an item: the entry, item.path and item.parents;
\* depth tells which generator yielded it (1: the image's own, 2: that of
\* an image nested in it, ...)
ItemOf(e, path, parents, depth) == [e |-> e, path |-> path, parents |-> parents, depth |-> depth]

\* line 75-77 of filesystem.py, inside next() of line 71 of diskimage.py.
\* An unresolvable directory makes the file system generator yield None,
\* on which line 72 (item.parents = fsparents) raises AttributeError.
FSOpenDir ==
    /\ Running
    /\ Top.pc = "pull"
    /\ TopDir.pc = "open"
    /\ IF get_directory(CurFs, TopDir.dir)
       THEN /\ stack' = SetTop(SetTopDir([TopDir EXCEPT !.pc = "iter"]))
            /\ UNCHANGED <<status, exc>>
       ELSE /\ stack' = <<>>
            /\ status' = "fault"
            /\ exc' = "AttributeError:item"
    /\ UNCHANGED <<ewf, file, born, heap, image, ret, call, seen, out, nested, nruns>>

\* lines 78-84 of filesystem.py and 72-73 of diskimage.py: the next entry of
\* the directory; an entry that is listed is tagged and yielded, and find
\* hands it on when it matches
FSNextEntry ==
    /\ Running
    /\ Top.pc = "pull"
    /\ TopDir.pc = "iter"
    /\ LET kids == Children(CurFs, TopDir.dir) IN
       IF TopDir.idx > Len(kids) THEN
            /\ IF Len(Top.dirs) = 1
               THEN stack' = SetTop([Top EXCEPT !.pc = "fs", !.i = @ + 1, !.dirs = <<>>])
               ELSE stack' = SetTop([Top EXCEPT !.dirs = SubSeq(@, 1, Len(@) - 1)])
            /\ UNCHANGED <<seen, out>>
       ELSE LET e == kids[TopDir.idx] IN
            IF ~IsListed(e) THEN
                /\ stack' = SetTop(SetTopDir([TopDir EXCEPT !.idx = @ + 1]))
                /\ UNCHANGED <<seen, out>>
            ELSE LET it == ItemOf(e, TopDir.path, Top.fsp, Len(stack)) IN
                /\ stack' = SetTop([Top EXCEPT !.pc = "resume", !.item = e])
                /\ seen' = Append(seen, it)
                /\ out' = IF call.op = "find" /\ ~FindMatches(call, Entries[e].name, TopDir.path)
                          THEN out ELSE Append(out, it)
    /\ UNCHANGED <<ewf, file, born, heap, image, ret, status, call, exc, nested, nruns>>

\* lines 74-81 of diskimage.py: a nested image is looked for in the item
\* just yielded
DIResume ==
    /\ Running
    /\ Top.pc = "resume"
    /\ IF Top.rec /\ EndsWithAny(StrLower(Entries[Top.item].name), EXTENSIONS(ewf)) THEN
            LET diparents == Len(heap) + 1
                r == from_items(Top.item, Entries[Top.item].name, diparents, ewf) IN
            /\ heap' = Append(heap, heap[Top.fsp])
            /\ nested' = IF r.opened /\ ~r.closed THEN nested + 1 ELSE nested
            /\ IF r.val = "raise" THEN
                    /\ stack' = <<>>
                    /\ status' = "fault"
                    /\ exc' = r.exc
               ELSE IF r.val = "None" THEN
                    \* di is None: di.filesystems raises
                    /\ stack' = <<>>
                    /\ status' = "fault"
                    /\ exc' = "AttributeError:di"
               ELSE IF Truthy(r.di.filesystems) /\ Len(stack) >= MaxDepth THEN
                    \* line 81, one generator too deep
                    /\ stack' = <<>>
                    /\ status' = "fault"
                    /\ exc' = "RecursionError"
               ELSE IF Truthy(r.di.filesystems) THEN
                    /\ stack' = Append(SetTop([Top EXCEPT !.pc = "yieldfrom"]), DIFrame(r.di, TRUE))
                    /\ UNCHANGED <<status, exc>>
               ELSE /\ stack' = SetTop([Top EXCEPT !.pc = "fsresume"])
                    /\ UNCHANGED <<status, exc>>
       ELSE /\ stack' = SetTop([Top EXCEPT !.pc = "fsresume"])
            /\ UNCHANGED <<heap, nested, status, exc>>
    /\ UNCHANGED <<ewf, file, born, image, ret, call, seen, out, nruns>>

\* FSResume, had DiskImage.get_items handed its `recursive` on to
\* FileSystem.get_items
FSResume_PassFlag ==
    /\ Running
    /\ Top.pc = "fsresume"
    /\ LET e == Top.item
           up == SetTopDir([TopDir EXCEPT !.idx = @ + 1]) IN
       IF Entries[e].kind = "dir" /\ Top.rec
       THEN stack' = SetTop([up EXCEPT !.pc = "pull",
                                       !.dirs = Append(@, DirFrame(e, PathJoin(TopDir.path, Entries[e].name)))])
       ELSE stack' = SetTop([up EXCEPT !.pc = "pull"])
    /\ UNCHANGED <<ewf, file, born, heap, image, ret, status, call, seen, out, exc, nested, nruns>>

\* lines 85-93 of filesystem.py: the file system generator, resumed after
\* its yield, goes into the item if it is a directory (line 71 of
\* diskimage.py always asks for that)
FSResume ==
    /\ Running
    /\ Top.pc = "fsresume"
    /\ LET e == Top.item
           up == SetTopDir([TopDir EXCEPT !.idx = @ + 1]) IN
       IF Entries[e].kind = "dir"
       THEN stack' = SetTop([up EXCEPT !.pc = "pull",
                                       !.dirs = Append(@, DirFrame(e, PathJoin(TopDir.path, Entries[e].name)))])
       ELSE stack' = SetTop([up EXCEPT !.pc = "pull"])
    /\ UNCHANGED <<ewf, file, born, heap, image, ret, status, call, seen, out, exc, nested, nruns>>

\* the caller stops pulling and lets go of the generator
Abandon ==
    /\ status \in {"new", "run"}
    /\ status' = "dropped"
    /\ stack' = <<>>
    /\ UNCHANGED <<ewf, file, born, heap, image, ret, call, seen, out, exc, nested, nruns>>

\* The caller lets go of the generator and of the items it gave: the lists
\* only they referred to are gone (the two default lists stay).
Release ==
    /\ status \in {"done", "fault", "dropped"}
    /\ status' = "idle"
    /\ call' = NoCall
    /\ seen' = <<>>
    /\ out' = <<>>
    /\ exc' = ""
    /\ nested' = 0
    /\ heap' = SubSeq(heap, 1, 2)
    /\ UNCHANGED <<ewf, file, born, image, ret, stack, nruns>>

Next ==
    \/ \E p \in HostPaths : FromFile(p)
    \/ \E e \in ItemInputs, strip \in BOOLEAN : FromItems(e, strip)
    \/ \E p \in HostPaths, cmd \in Commands : Main(p, cmd)
    \/ \E rec \in BOOLEAN : CallGetItems(rec)
    \/ \E str \in FindStrings, rec \in BOOLEAN, ic \in BOOLEAN, regex \in BOOLEAN :
            CallFind(str, rec, ic, regex)
    \/ Begin
    \/ DIEnter
    \/ DINextFs
    \/ FSOpenDir
    \/ FSNextEntry
    \/ DIResume
    \/ FSResume
    \/ Abandon
    \/ Release

Spec == Init /\ [][Next]_vars

(***************************************************************************)
(* The caller works on one file handle: f = item.open(), f.seek, f.read    *)
(***************************************************************************)
\* ExtPytskFile.__init__ on a file of some size
InitFile ==
    /\ ewf = TRUE
    /\ heap = << <<>>, <<>> >>
    /\ image = NoDiskImage
    /\ ret = NoRet
    /\ status = "idle"
    /\ call = NoCall
    /\ stack = <<>>
    /\ seen = <<>>
    /\ out = <<>>
    /\ exc = ""
    /\ nested = 0
    /\ nruns = 0
    /\ born = NoBirth
    /\ \E size \in 0..MaxSize : file = [open |-> TRUE, size |-> size, offset |-> 0, last |-> NoOp]

\* f.seek(offset) or f.seek(offset, whence)
Seek(offset, whence) ==
    /\ file.open
    /\ LET new == seek(file.size, file.offset, offset, whence) IN
        /\ new \in (0 - MaxCursor)..MaxCursor
        /\ file' = [file EXCEPT !.offset = new,
                                !.last = [op |-> "seek", arg |-> offset, whence |-> whence,
                                          before |-> file.offset, val |-> <<>>, exc |-> ""]]
    /\ UNCHANGED <<ewf, heap, image, ret, status, call, stack, seen, out, exc, nested, nruns, born>>

\* f.read(size)
Read(n) ==
    /\ file.open
    /\ \E r \in read_random(file.size, file.offset, n) :
            file' = [file EXCEPT !.last = [op |-> "read", arg |-> n, whence |-> <<>>,
                                          before |-> file.offset, val |-> r.val, exc |-> r.exc]]
    /\ UNCHANGED <<ewf, heap, image, ret, status, call, stack, seen, out, exc, nested, nruns, born>>

NextFile ==
    \/ \E offset \in (0 - MaxSeek)..MaxSeek, whence \in {<<>>, <<SEEK_SET>>, <<SEEK_CUR>>, <<SEEK_END>>} :
            Seek(offset, whence)
    \/ \E n \in 0..MaxRead : Read(n)

SpecFile == InitFile /\ [][NextFile]_vars

(***************************************************************************)
(* What the claims speak of, defined from the world and not from the       *)
(* generators                                                              *)
(***************************************************************************)
IsPrefix(a, b) == Len(a) <= Len(b) /\ SubSeq(b, 1, Len(a)) = a

\* the entries of a sequence of items
Ids(q) == [i \in 1..Len(q) |-> q[i].e]

\* the items a generator of the given depth yielded
AtDepth(q, d) == SelectSeq(q, LAMBDA it : it.depth = d)

RECURSIVE Flatten(_)
Flatten(ss) == IF ss = <<>> THEN <<>> ELSE ss[1] \o Flatten(Tail(ss))

\* the listed entries of one directory of a file system
ListedChildren(fs, dir) == SelectSeq(Children(fs, dir), IsListed)

\* the listed entries below a directory, at every depth, each directory
\* followed by what is below it
RECURSIVE Below(_, _)
Below(fs, dir) ==
    IF ~get_directory(fs, dir) THEN <<>>
    ELSE LET kids == ListedChildren(fs, dir)
         IN Flatten([i \in 1..Len(kids) |->
                <<kids[i]>> \o (IF Entries[kids[i]].kind = "dir" THEN Below(fs, kids[i]) ELSE <<>>)])

\* the root-directory entries of every mounted file system of an image
ImmediateChildren(di) ==
    Flatten([j \in 1..Len(di.filesystems.list) |-> ListedChildren(di.filesystems.list[j].fs, 0)])

\* the entries of every mounted file system of an image, at every depth
AllEntries(di) ==
    Flatten([j \in 1..Len(di.filesystems.list) |-> Below(di.filesystems.list[j].fs, 0)])

Enumerating == status \in {"run", "done", "fault", "dropped"}

Triggers(e) ==
    /\ EndsWithAny(StrLower(Entries[e].name), EXTENSIONS(ewf))
    /\ LET r == from_items(e, Entries[e].name, DEFAULT_FROM_ITEMS_PARENTS, ewf)
       IN r.val = "di" /\ Truthy(r.di.filesystems)

\* the listing of an image with, after each entry that triggers, the
\* spliced listing of the image nested in it, down to some depth of nesting
RECURSIVE SplicedTo(_, _)
SplicedTo(di, depth) ==
    LET own == AllEntries(di)
    IN Flatten([i \in 1..Len(own) |->
            <<own[i]>> \o
            (IF depth > 1 /\ Triggers(own[i])
             THEN SplicedTo(from_items(own[i], Entries[own[i]].name, DEFAULT_FROM_ITEMS_PARENTS, ewf).di,
                            depth - 1)
             ELSE <<>>)])

Spliced(di) == SplicedTo(di, MaxDepth)

\* C2 as claimed: the sequence a recursive get_items gives is the
\* non-recursive sequence with, immediately after every item that has a
\* container extension and whose nested image has a file system, that
\* nested image's whole recursive sequence; the item itself comes before
\* the nested image is opened.
C2_SplicedSequence ==
    /\ (call.op = "get_items" /\ call.rec /\ status \in {"done", "fault"})
            => Ids(out) = Spliced(call.di)
    /\ \A k \in 2..Len(stack) :
            /\ seen # <<>>
            /\ \E i \in 1..Len(seen) : seen[i].e = stack[k - 1].item /\ seen[i].depth = k - 1

(***************************************************************************)
(* C3                                                                      *)
(***************************************************************************)
\* C3 as claimed: on an image without a mounted file system, get_items and
\* find give nothing and raise nothing, whatever their arguments.
C3_EmptyAndNoFault ==
    (Enumerating /\ ~Truthy(call.di.filesystems))
        => out = <<>> /\ status # "fault"

\* C3 as amended: on an image without a mounted file system (the list is
\* empty, or None after a failed scan) get_items and find yield nothing;
\* get_items never raises, and find raises only re.error, on the first
\* pull, and only when regex is set and the string is no valid pattern.
C3_Amended ==
    (Enumerating /\ ~Truthy(call.di.filesystems))
        => /\ out = <<>>
           /\ seen = <<>>
           /\ status = "fault" => (call.op = "find" /\ call.regex /\ ~Compile(call.str).ok)
           /\ status \in {"run", "done"} => ~(call.op = "find" /\ call.regex /\ ~Compile(call.str).ok)
           /\ status = "fault" => exc = "re.error"

\* C3's case: a find with a pattern is exhausted on an image whose scan
\* failed
C3_Witness ==
    /\ status = "done" /\ call.op = "find" /\ call.regex
    /\ call.di.filesystems.none

(***************************************************************************)
(* C4                                                                      *)
(***************************************************************************)
\* C4 as claimed: in a recursive get_items, an item with a container
\* extension that cannot be opened as an image, or whose image has no file
\* system, ends nothing: no fault is raised for it.
C4_NoFaultOnUnopenable ==
    (status = "fault" /\ seen # <<>>
        /\ EndsWithAny(StrLower(Entries[seen[Len(seen)].e].name), EXTENSIONS(ewf)))
        => exc \notin {"AttributeError:di", "IOError"}

(***************************************************************************)
(* C5                                                                      *)
(***************************************************************************)
\* C5 as claimed: the image from_file has just returned has parents == [].
C5_FreshAncestryEmpty ==
    (ret.op = "from_file" /\ ret.val = "di") => heap[image.parents] = <<>>

(***************************************************************************)
(* C6                                                                      *)
(***************************************************************************)
\* two characters are one letter, in whatever case
SameLetter(c, d) ==
    \/ c = d
    \/ \E k \in 1..Len(LowerLetters) : {c, d} = {LowerLetters[k], UpperLetters[k]}

DiffersOnlyInCase(a, b) ==
    /\ Len(a) = Len(b)
    /\ \A i \in 1..Len(a) : SameLetter(a[i], b[i])

NameOf(it) == Entries[it.e].name

\* C6: find with regex=False hands on, in order, exactly the items of
\* get_items(recursive) whose bare name is the string, or with ignorecase
\* differs from it in letter case only; neither the directory path nor the
\* ancestry is looked at.
C6_BareNameEquality ==
    (Enumerating /\ call.op = "find" /\ ~call.regex)
        => out = SelectSeq(seen, LAMBDA it :
                    IF call.ic THEN DiffersOnlyInCase(NameOf(it), call.str)
                    ELSE NameOf(it) = call.str)

\* C6's case: an exhausted find without regex, with ignorecase, that found
\* a name in another case in a subdirectory, and one in the same case
C6_Witness ==
    /\ status = "done" /\ call.op = "find" /\ ~call.regex /\ call.ic
    /\ \E i \in 1..Len(out) : NameOf(out[i]) # call.str /\ out[i].path # <<"/">>
    /\ \E i \in 1..Len(out) : NameOf(out[i]) = call.str

(***************************************************************************)
(* C7                                                                      *)
(***************************************************************************)
SameChar(c, d, ic) == IF ic THEN SameLetter(c, d) ELSE c = d

\* what the patterns searched for mean as regular expressions: the strings
\* that begin with a, any character, t; those that end in .t; those that
\* begin with m
MatchesAtStart(str, s, ic) ==
    CASE str = <<"a", ".", "t">> ->
            Len(s) >= 3 /\ SameChar(s[1], "a", ic) /\ SameChar(s[3], "t", ic)
      [] str = <<".", "*", "\\", ".", "t", "$">> ->
            Len(s) >= 2 /\ s[Len(s) - 1] = "." /\ SameChar(s[Len(s)], "t", ic)
      [] str = <<"m", ".", "*">> ->
            Len(s) >= 1 /\ SameChar(s[1], "m", ic)
      [] OTHER -> FALSE

\* C7: find with regex=True hands on, in order, exactly the items of
\* get_items(recursive) whose directory path joined with the name matches
\* the pattern from the first character; a pattern found only further on
\* in that string (a.t in /a.t) or only in the ancestry (m.* in m.dd)
\* gives nothing.
C7_AnchoredAtStart ==
    (Enumerating /\ call.op = "find" /\ call.regex)
        => /\ out = SelectSeq(seen, LAMBDA it :
                        MatchesAtStart(call.str, PathJoin(it.path, NameOf(it)), call.ic))
           /\ call.str \in {<<"a", ".", "t">>, <<"m", ".", "*">>} => out = <<>>

\* C7's case: an exhausted find with a pattern that is the name of items
\* it went through, and none is handed on
C7_Witness ==
    /\ status = "done" /\ call.op = "find" /\ call.regex
    /\ call.str = <<"a", ".", "t">>
    /\ \E i \in 1..Len(seen) : NameOf(seen[i]) = call.str
    /\ out = <<>>

(***************************************************************************)
(* C8                                                                      *)
(***************************************************************************)
\* C8 as claimed: for a name of unknown type, from a path and from items
\* alike, the EWF open is attempted first and the raw open second.
C8_EwfBeforeRaw ==
    (ret.op \in {"from_file", "from_items"} /\ ret.itype = IMAGE_UNKNOWN /\ ret.attempts # <<>>)
        => /\ ret.attempts[1] = "ewf"
           /\ Len(ret.attempts) >= 2 => ret.attempts[2] = "raw"

C10_AbortAndClose ==
    (ret.op \in {"from_file", "from_items"} /\ ret.vol \in {"oserr", "rterr"})
        => /\ ret.mounts = 0
           /\ ret.closed
           /\ ret.val = "di" /\ image.filesystems.none

(***************************************************************************)
(* C11                                                                     *)
(***************************************************************************)
\* the bytes the image handle of the last from_file read
ScannedBytes == Contents[View(HostFiles[ret.arg].content, ret.attempts[Len(ret.attempts)])]

\* C11 as claimed: a file system stored for an entry of a partition table
\* has offset = the entry's start sector times the sector size the table
\* reports, whatever that size is, and the file system of a volume without
\* a table has offset 0.
C11_OffsetBySectorSize ==
    (ret.op = "from_file" /\ ret.val = "di" /\ ~image.filesystems.none) =>
        \A j \in 1..Len(image.filesystems.list) :
            LET f == image.filesystems.list[j] IN
            IF ret.vol = "table" THEN f.offset = f.start * ScannedBytes.bsize
            ELSE f.offset = 0

(***************************************************************************)
(* C12                                                                     *)
(***************************************************************************)
\* C12 as claimed: every file system in the filesystems list of an image,
\* found through a partition table or as the one volume, has a root
\* directory that can be opened.
C12_StoredRootResolvable ==
    (ret.op \in {"from_file", "from_items"} /\ ret.val = "di" /\ ~image.filesystems.none) =>
        \A j \in 1..Len(image.filesystems.list) : FsInfo[image.filesystems.list[j].fs].rootOk

(***************************************************************************)
(* C13                                                                     *)
(***************************************************************************)
\* C13 as claimed: once an enumeration is exhausted, or the caller has
\* stopped pulling, no image handle the enumeration opened for a nested
\* image is still open.
C13_NestedHandlesClosed ==
    status \in {"done", "dropped"} => nested = 0

(***************************************************************************)
(* C14                                                                     *)
(***************************************************************************)
\* C14 as claimed: a subdirectory that cannot be opened is passed over:
\* the enumeration that has just yielded the entry of such a directory does
\* not end with an exception.
C14_UnresolvableDirSkipped ==
    (seen # <<>> /\ Entries[seen[Len(seen)].e].kind = "dir" /\ ~Entries[seen[Len(seen)].e].dirOk)
        => status # "fault"

(***************************************************************************)
(* C15                                                                     *)
(***************************************************************************)
\* C15 as claimed: seek(o) and seek(o, SEEK_SET) leave the offset at o,
\* seek(o, SEEK_CUR) at the former offset + o, seek(o, SEEK_END) at
\* size + o; read(n) returns the bytes from the offset on, n of them or as
\* many as there are before the end of the file, and does not raise.
C15_SeekAndRead ==
    /\ file.last.op = "seek" =>
            file.offset = (IF file.last.whence \in {<<>>, <<SEEK_SET>>} THEN file.last.arg
                           ELSE IF file.last.whence = <<SEEK_CUR>> THEN file.last.before + file.last.arg
                           ELSE file.size + file.last.arg)
    /\ (file.last.op = "read" /\ file.offset >= 0) =>
            /\ file.last.exc = ""
            /\ file.last.val = [i \in 1..(IF file.offset + file.last.arg <= file.size
                                          THEN file.last.arg
                                          ELSE IF file.offset <= file.size THEN file.size - file.offset
                                          ELSE 0)
                                  |-> FileData(file.size)[file.offset + i]]

(***************************************************************************)
(* C16                                                                     *)
(***************************************************************************)
\* C16 as claimed: without pyewf a name with an EWF extension is still of
\* type IMAGE_EWF, and opening a source of type IMAGE_EWF or IMAGE_UNKNOWN,
\* from a path or from items, ends with a raw image handle or with None,
\* not with an exception.
C16_NoFaultWithoutPyewf ==
    ~ewf =>
        /\ \A p \in HostPaths :
                EndsWithAny(StrLower(HostFiles[p].path), EWFEXTENSIONS)
                    => get_imagetype(HostFiles[p].path, ewf) = IMAGE_EWF
        /\ (ret.op \in {"from_file", "from_items"} /\ ret.itype \in {IMAGE_EWF, IMAGE_UNKNOWN}
                /\ ret.attempts # <<>>)
                => \/ ret.opened /\ ret.attempts[Len(ret.attempts)] = "raw"
                   \/ ~ret.opened /\ ret.val = "None"

(***************************************************************************)
(* C17                                                                     *)
(***************************************************************************)
\* the place of an entry's file system in the filesystems list of an image
FsIndex(di, e) ==
    CHOOSE j \in 1..Len(di.filesystems.list) : di.filesystems.list[j].fs = Entries[e].fs

\* C17 as claimed: whatever enumerations were run on it, the image the
\* caller holds has the parents list it had when it was returned, and an
\* enumeration of it yields the entries in the order of the listing, each
\* with the ancestry of a first enumeration: the image's parents as they
\* were, the image's name, and the label of the file system.
C17_Restartable ==
    /\ HasImage => heap[image.parents] = born.parents
    /\ (Enumerating /\ call.di = image) =>
            /\ IsPrefix(Ids(AtDepth(seen, 1)), AllEntries(image))
            /\ \A i \in 1..Len(seen) :
                    seen[i].depth = 1 =>
                        heap[seen[i].parents] =
                            born.parents \o <<image.name, FsLabel(FsIndex(image, seen[i].e) - 1)>>

(***************************************************************************)
(* C18                                                                     *)
(***************************************************************************)
\* the item after which the nested image holding item i was opened
TriggerOf(i) ==
    CHOOSE t \in 1..(i - 1) :
        /\ seen[t].depth = seen[i].depth - 1
        /\ \A u \in (t + 1)..(i - 1) : seen[u].depth >= seen[i].depth

\* the chain of image names and file system labels down to item i
RECURSIVE Chain(_)
Chain(i) ==
    IF seen[i].depth = 1
    THEN <<call.di.name, FsLabel(FsIndex(call.di, seen[i].e) - 1)>>
    ELSE LET t == TriggerOf(i)
             di == from_items(seen[t].e, NameOf(seen[t]), DEFAULT_FROM_ITEMS_PARENTS, ewf).di
         IN Chain(t) \o <<NameOf(seen[t]), FsLabel(FsIndex(di, seen[i].e) - 1)>>

\* C18 as claimed: in the first enumeration of an image just opened, the
\* ancestry of every item is the chain image name, file system label,
\* nested image name, file system label, ... down to the file system that
\* holds the item, also for the items that come after those of a nested
\* image.
C18_AncestryChain ==
    (Enumerating /\ call.di = image /\ born.runs = 1) =>
        \A i \in 1..Len(seen) : heap[seen[i].parents] = Chain(i)

(***************************************************************************)
(* C19                                                                     *)
(***************************************************************************)
\* C19 as claimed: a recursive enumeration does not nest without bound,
\* whatever the image: none ends at the interpreter's recursion limit, and
\* no image is being listed inside a listing of itself.
C19_BoundedRecursion ==
    /\ status = "fault" => exc # "RecursionError"
    /\ \A k, l \in 1..Len(stack) :
            k < l => ~(/\ stack[k].di.name = stack[l].di.name
                       /\ stack[k].di.filesystems = stack[l].di.filesystems
                       /\ stack[k].item = stack[l].item)

====
